---------------------------- MODULE Spec2Model ----------------------------
(***************************************************************************)
(* A model of the green-thread runtime of src/src/main.rs: a fixed pool of *)
(* MAX_THREADS thread records scheduled cooperatively and round-robin by   *)
(* Runtime::t_yield, with contexts exchanged by the naked function switch. *)
(*                                                                         *)
(* One action is one step of the thread that holds the CPU: a call of      *)
(* spawn, yield_thread or run's next t_yield, a visible println of a       *)
(* thread body, or the return of a body (guard, t_return).  A call that    *)
(* switches runs up to the point where the thread switched to continues.   *)
(***************************************************************************)
EXTENDS Integers, Sequences, FiniteSets, TLC

VARIABLES
    threads,    \* Runtime.threads: index -> [id, stack, ctx, state]
    current,    \* Runtime.current
    status,     \* the process: "running", "exited", "panicked", "crashed"
    pc,         \* per slot: where the execution living on that stack stands
    fn,         \* per slot: the body (closure) that execution runs
    cnt,        \* per slot: counter lines that body has printed so far
    nspawn,     \* calls of spawn made so far
    last,       \* the last call made: its name, current at entry, slot chosen
    sp,         \* per slot: rsp (byte offset in the stack) of that execution
                \* on entry to its outermost function, body or guard
    wait        \* per slot: switches made past the record since it is Ready

vars == <<threads, current, status, pc, fn, cnt, nspawn, last, sp, wait>>

-----------------------------------------------------------------------------
(* Program constants *)

DEFAULT_STACK_SIZE == 1024 * 1024 * 2
MAX_THREADS == 4

\* the loop counts of the two closures of main
NA == 10
NB == 15

(* Bounds of the model *)

\* bodies in the general specification loop 0..MaxYields times
MaxYields == 1
\* spawn is called at most MaxSpawns times in the general specification
MaxSpawns == 4

-----------------------------------------------------------------------------
(* Data *)

State == {"Available", "Running", "Ready"}

\* A closure `f: fn()` of the shape main passes to spawn is identified by its
\* loop count n: print STARTING; n times (print counter; yield_thread());
\* print FINISHED; return.
Bodies == 0 .. MaxYields
MainBodies == Bodies \cup {NA, NB}

\* 8-byte words of a stack buffer: zero (vec![0_u8; ..]), the address of
\* guard, or the address of a body.
ZeroWord == [tag |-> "zero", n |-> 0]
GuardWord == [tag |-> "guard", n |-> 0]
FnWord(f) == [tag |-> "fn", n |-> f]

\* (variant) the body address written one word too high
BodyOffHigh(size) == size - 16

\* The byte offsets spawn writes at, and the two words above them.
GuardOff(size) == size - 24
BodyOff(size) == size - 32
TopOffsets(size) == {size - 32, size - 24, size - 16, size - 8}

\* The base thread runs on the stack the OS gave the process, not on
\* threads[0].stack; it is named by an index no record has.
OsStack == MAX_THREADS
StackOf(i) == IF i = 0 THEN OsStack ELSE i

\* A stack pointer.  stk names the buffer and off the byte offset in it.
\* site tells what the pointer is: "null" (ThreadContext::default(), rsp = 0),
\* "primed" (written by spawn: off is exact), or the call that reached switch
\* ("run", "yield_thread", "t_return"): the frames of that call chain lie
\* below off, at a depth the compiler chooses.
NullRsp == [stk |-> OsStack, off |-> 0, site |-> "null"]
LiveRsp(i, site) ==
    [stk |-> StackOf(i),
     off |-> IF i = 0 THEN 0 ELSE GuardOff(DEFAULT_STACK_SIZE),
     site |-> site]

\* ThreadContext::default(); r15..rbp hold what the compiler keeps in them
\* and are saved and restored with rsp, so only rsp is modelled.
DefaultCtx == [rsp |-> NullRsp]

ZeroStack == [o \in TopOffsets(DEFAULT_STACK_SIZE) |-> ZeroWord]

\* Thread::new(id)
ThreadNew(id) ==
    [id |-> id, stack |-> ZeroStack, ctx |-> DefaultCtx, state |-> "Available"]

\* Runtime::new(): the base thread, Running, then threads 1..MAX_THREADS-1
RuntimeNew ==
    [i \in 0 .. MAX_THREADS - 1 |->
        IF i = 0
        THEN [id |-> 0, stack |-> ZeroStack, ctx |-> DefaultCtx,
              state |-> "Running"]
        ELSE ThreadNew(i)]

\* self.threads.len()
Len_threads(th) == Cardinality(DOMAIN th)


-----------------------------------------------------------------------------
(* Runtime::t_yield *)

\* The scan of t_yield, from the position pos it has reached: the while loop
\* leaves with pos at a Ready record, or returns false when pos comes back
\* to current.
RECURSIVE ScanFrom(_, _, _)
ScanFrom(th, cur, pos) ==
    IF th[pos].state = "Ready"
    THEN [found |-> TRUE, pos |-> pos]
    ELSE LET p1 == pos + 1
             p2 == IF p1 = Len_threads(th) THEN 0 ELSE p1
         IN  IF p2 = cur
             THEN [found |-> FALSE, pos |-> cur]
             ELSE ScanFrom(th, cur, p2)

\* (variant) the scan started at slot 0 instead of at current
ScanFromZero(th, cur) == ScanFrom(th, cur, 0)

\* (variant) the Ready record farthest from current, not the nearest
ScanHighest(th, cur) ==
    LET rd == {i \in DOMAIN th : i # cur /\ th[i].state = "Ready"}
    IN  IF rd = {} THEN [found |-> FALSE, pos |-> cur]
        ELSE [found |-> TRUE, pos |-> CHOOSE i \in rd : \A j \in rd : j <= i]

\* (variant) the wrap taken one slot early: `pos == self.threads.len() - 1`
RECURSIVE ScanFromSkipLast(_, _, _)
ScanFromSkipLast(th, cur, pos) ==
    IF th[pos].state = "Ready"
    THEN [found |-> TRUE, pos |-> pos]
    ELSE LET p1 == pos + 1
             p2 == IF p1 >= Len_threads(th) - 1 THEN 0 ELSE p1
         IN  IF p2 = cur \/ (p2 = 0 /\ cur = Len_threads(th) - 1)
             THEN [found |-> FALSE, pos |-> cur]
             ELSE ScanFromSkipLast(th, cur, p2)
ScanSkipLast(th, cur) == ScanFromSkipLast(th, cur, cur)

\* let mut pos = self.current; while ... { ... }
Scan(th, cur) == ScanFrom(th, cur, cur)

\* (variant) the demotion of the yielding thread left out
DemoteNever(th, cur) == th

\* (variant) the yielding thread demoted without the test for Available
DemoteAlways(th, cur) == [th EXCEPT ![cur].state = "Ready"]

\* if self.threads[self.current].state != Available { ... = Ready }
Demote(th, cur) ==
    IF th[cur].state # "Available"
    THEN [th EXCEPT ![cur].state = "Ready"]
    ELSE th

\* self.threads[pos].state = State::Running
Promote(th, pos) == [th EXCEPT ![pos].state = "Running"]

\* (variant) current not updated
NewCurrentStale(cur, pos) == cur

\* self.current = pos
NewCurrent(cur, pos) == pos

\* (variant) old_pos read after current was set: the save goes to the
\* record just promoted
SwitchSaveIntoNew(th, old, site) ==
    LET run == {i \in DOMAIN th : i # old /\ th[i].state = "Running"}
        p == IF run = {} THEN old ELSE CHOOSE i \in run : TRUE
    IN  [th EXCEPT ![p].ctx.rsp = LiveRsp(old, site)]

\* The save half of switch: the live registers of the thread that called
\* go to *old; that thread stands in the call named by site.
SwitchSave(th, old, site) == [th EXCEPT ![old].ctx.rsp = LiveRsp(old, site)]

\* (variant) the yielding thread demoted before the scan instead of after
TYieldDemoteFirst(th, cur, site) ==
    LET th1 == Demote(th, cur)
        s == Scan(th1, cur)
    IN  IF ~s.found
        THEN [threads |-> th1, current |-> cur, found |-> FALSE, pos |-> cur]
        ELSE [threads |-> SwitchSave(Promote(th1, s.pos), cur, site),
              current |-> NewCurrent(cur, s.pos),
              found |-> TRUE,
              pos |-> s.pos]

\* t_yield called with current = cur from the call named by site: the new
\* threads and current, whether a Ready record was found and which.
TYield(th, cur, site) ==
    LET s == Scan(th, cur)
    IN  IF ~s.found
        THEN [threads |-> th, current |-> cur, found |-> FALSE, pos |-> cur]
        ELSE [threads |-> SwitchSave(Promote(Demote(th, cur), s.pos), cur, site),
              current |-> NewCurrent(cur, s.pos),
              found |-> TRUE,
              pos |-> s.pos]

\* The load half of switch and its ret, into the record p of th: the word
\* the loaded rsp points at is popped as the return address.
\*   "body"     a primed stack: the body whose address was written starts
\*   "continue" a saved context: the suspended t_yield returns to its caller
\*   "fault"    anything else (rsp = 0, a word that is no code, or a finished
\*              t_return whose guard returns onto the zero word above it)
Landing(th, p) ==
    LET r == th[p].ctx.rsp
    IN  IF r.site = "primed"
        THEN IF /\ r.stk \in DOMAIN th
                /\ r.off \in DOMAIN th[r.stk].stack
                /\ th[r.stk].stack[r.off].tag = "fn"
             THEN "body"
             ELSE "fault"
        ELSE IF r.site \in {"run", "yield_thread"} THEN "continue" ELSE "fault"

\* The body a primed record p starts: the word at its saved rsp.
LandingFn(th, p) ==
    LET r == th[p].ctx.rsp IN th[r.stk].stack[r.off].n

\* (variant) run never leaves its loop
AfterNoWorkLoop(site) == IF site = "t_return" THEN "crashed" ELSE "running"

\* What becomes of the process when t_yield returns false to the call site:
\* run leaves its loop and exits; yield_thread ignores the result; t_return
\* returns to guard, which returns onto the word above the guard address.
AfterNoWork(site) ==
    CASE site = "run" -> "exited"
      [] site = "yield_thread" -> "running"
      [] OTHER -> "crashed"

\* ret: the word rsp points at is taken as the return address and rsp moves
\* up by one 8-byte word.
Pop(off) == off + 8

\* The switches each record has waited through once t_yield has switched:
\* one more for a record Ready before and after, none for the others.
Waited(before, after, w) ==
    [i \in DOMAIN w |->
        IF /\ i \in DOMAIN before /\ i \in DOMAIN after
           /\ before[i].state = "Ready" /\ after[i].state = "Ready"
        THEN IF w[i] < MAX_THREADS THEN w[i] + 1 ELSE w[i]
        ELSE 0]

\* The running thread transfers the CPU by the t_yield result r, reached from
\* the call `op`; after is the caller's position once (and if) the call
\* returns; nowork is what becomes of the process when r found nothing; spn
\* is sp as the caller leaves it.
Transfer(r, op, after, nowork, spn) ==
    LET pc1 == [pc EXCEPT ![current] = after]
        land == Landing(r.threads, r.pos)
    IN  /\ threads' = r.threads
        /\ current' = r.current
        /\ last' = [op |-> op, entry |-> current, pos |-> r.pos,
                    found |-> r.found]
        /\ nspawn' = nspawn
        /\ wait' = IF r.found THEN Waited(threads, r.threads, wait) ELSE wait
        /\ IF ~r.found
           THEN /\ pc' = pc1
                /\ status' = nowork
                /\ sp' = spn
                /\ UNCHANGED <<fn, cnt>>
           ELSE IF land = "body"
           THEN /\ pc' = [pc1 EXCEPT ![r.pos] = "start"]
                /\ fn' = [fn EXCEPT ![r.pos] = LandingFn(r.threads, r.pos)]
                /\ cnt' = [cnt EXCEPT ![r.pos] = 0]
                /\ sp' = [spn EXCEPT ![r.pos] = Pop(r.threads[r.pos].ctx.rsp.off)]
                /\ status' = status
           ELSE /\ pc' = pc1
                /\ status' = IF land = "continue" THEN status ELSE "crashed"
                /\ sp' = spn
                /\ UNCHANGED <<fn, cnt>>

\* A call of t_yield by the running thread from run or yield_thread.
CallTYield(site, after) ==
    Transfer(TYield(threads, current, site), site, after, AfterNoWork(site), sp)

-----------------------------------------------------------------------------
(* Runtime::spawn *)

NoThread == MAX_THREADS

\* (variant) with no Available record, the first Ready one is taken over
FindAvailableOrReady(th) ==
    LET av == {i \in DOMAIN th : th[i].state = "Available"}
        rd == {i \in DOMAIN th : th[i].state = "Ready"}
    IN  IF av # {} THEN CHOOSE i \in av : \A j \in av : i <= j
        ELSE IF rd # {} THEN CHOOSE i \in rd : \A j \in rd : i <= j
        ELSE NoThread

\* (variant) the last Available record instead of the first
FindLastAvailable(th) ==
    LET av == {i \in DOMAIN th : th[i].state = "Available"}
    IN  IF av = {} THEN NoThread
        ELSE CHOOSE i \in av : \A j \in av : j <= i

\* self.threads.iter_mut().find(|t| t.state == State::Available): the first
\* such index, or NoThread (None, on which expect panics).
FindAvailable(th) ==
    LET av == {i \in DOMAIN th : th[i].state = "Available"}
    IN  IF av = {} THEN NoThread
        ELSE CHOOSE i \in av : \A j \in av : i <= j

\* (variant) the primed record marked Running
PrimeRunning(th, i, f) ==
    LET size == DEFAULT_STACK_SIZE
    IN  [th EXCEPT
            ![i].stack = [@ EXCEPT ![GuardOff(size)] = GuardWord,
                                   ![BodyOff(size)] = FnWord(f)],
            ![i].ctx.rsp = [stk |-> i, off |-> BodyOff(size), site |-> "primed"],
            ![i].state = "Running"]

\* (variant) rsp set only in a context never used before
PrimeOnce(th, i, f) ==
    LET size == DEFAULT_STACK_SIZE
    IN  [th EXCEPT
            ![i].stack = [@ EXCEPT ![GuardOff(size)] = GuardWord,
                                   ![BodyOff(size)] = FnWord(f)],
            ![i].ctx.rsp = IF @ = NullRsp
                           THEN [stk |-> i, off |-> BodyOff(size),
                                 site |-> "primed"]
                           ELSE @,
            ![i].state = "Ready"]

\* (variant) the guard address written one word too high
PrimeGuardMisplaced(th, i, f) ==
    LET size == DEFAULT_STACK_SIZE
    IN  [th EXCEPT
            ![i].stack = [@ EXCEPT ![GuardOff(size) + 8] = GuardWord,
                                   ![BodyOff(size)] = FnWord(f)],
            ![i].ctx.rsp = [stk |-> i, off |-> BodyOff(size), site |-> "primed"],
            ![i].state = "Ready"]

\* The unsafe block of spawn and the state change after it, on record i.
Prime(th, i, f) ==
    LET size == DEFAULT_STACK_SIZE
    IN  [th EXCEPT
            ![i].stack = [@ EXCEPT ![GuardOff(size)] = GuardWord,
                                   ![BodyOff(size)] = FnWord(f)],
            ![i].ctx.rsp = [stk |-> i, off |-> BodyOff(size), site |-> "primed"],
            ![i].state = "Ready"]

\* spawn(f), called by the running thread.
SpawnCall(f) ==
    LET a == FindAvailable(threads)
    IN  /\ nspawn' = nspawn + 1
        /\ last' = [op |-> "spawn", entry |-> current, pos |-> a,
                    found |-> a # NoThread]
        /\ IF a = NoThread
           THEN /\ status' = "panicked"
                /\ UNCHANGED <<threads, current, pc, fn, cnt, sp, wait>>
           ELSE /\ threads' = Prime(threads, a, f)
                /\ UNCHANGED <<current, status, pc, fn, cnt, sp, wait>>

-----------------------------------------------------------------------------
(* Runtime::t_return, reached through guard *)

\* (variant) the finished record marked Ready
MarkFinishedReady(th, cur) ==
    IF cur # 0 THEN [th EXCEPT ![cur].state = "Ready"] ELSE th

\* if self.current != 0 { self.threads[self.current].state = Available; .. }
MarkFinished(th, cur) ==
    IF cur # 0 THEN [th EXCEPT ![cur].state = "Available"] ELSE th

\* t_return with current = cur: the t_yield it ends in, or nothing at all
\* for the base thread.
TReturn(th, cur) ==
    IF cur # 0
    THEN TYield(MarkFinished(th, cur), cur, "t_return")
    ELSE [threads |-> th, current |-> cur, found |-> FALSE, pos |-> cur]

\* The body of the running thread returns: ret pops the word rsp points at,
\* as it did on entry to the body: the word above the body address, which
\* spawn set to guard; guard calls t_return.  If t_return comes back, guard
\* returns onto the zero word above its own address.
ReturnCall ==
    IF /\ sp[current] \in DOMAIN threads[current].stack
       /\ threads[current].stack[sp[current]] = GuardWord
    THEN Transfer(TReturn(threads, current), "t_return", "dead", "crashed",
                  [sp EXCEPT ![current] = Pop(@)])
    ELSE /\ status' = "crashed"
         /\ last' = [op |-> "ret", entry |-> current, pos |-> current,
                     found |-> FALSE]
         /\ UNCHANGED <<threads, current, pc, fn, cnt, nspawn, sp, wait>>

-----------------------------------------------------------------------------
(* The state after Runtime::new() and init(), at the first line of main *)

Init ==
    /\ threads = RuntimeNew
    /\ current = 0
    /\ status = "running"
    /\ pc = [i \in 0 .. MAX_THREADS - 1 |-> IF i = 0 THEN "main" ELSE "idle"]
    /\ fn = [i \in 0 .. MAX_THREADS - 1 |-> 0]
    /\ cnt = [i \in 0 .. MAX_THREADS - 1 |-> 0]
    /\ nspawn = 0
    /\ last = [op |-> "new", entry |-> 0, pos |-> 0, found |-> FALSE]
    /\ sp = [i \in 0 .. MAX_THREADS - 1 |-> 0]
    /\ wait = [i \in 0 .. MAX_THREADS - 1 |-> 0]

\* The thread holding the CPU is the one `current` names.
InBase == status = "running" /\ current = 0
InBody == status = "running" /\ current # 0

(* The base thread: main *)

\* runtime.spawn(..) in main, before run
MainSpawn ==
    /\ InBase /\ pc[0] = "main" /\ nspawn < MaxSpawns
    /\ \E f \in Bodies : SpawnCall(f)

\* yield_thread() called by main before run
MainYield ==
    /\ InBase /\ pc[0] = "main"
    /\ CallTYield("yield_thread", "main")

\* runtime.run(): one turn of `while self.t_yield() {}`, then exit(0)
Run ==
    /\ InBase /\ pc[0] \in {"main", "run"}
    /\ CallTYield("run", "run")

(* A thread body *)

\* println!("THREAD n STARTING")
BodyStart ==
    /\ InBody /\ pc[current] = "start"
    /\ pc' = [pc EXCEPT ![current] = "loop"]
    /\ last' = [op |-> "print", entry |-> current, pos |-> current,
                found |-> FALSE]
    /\ UNCHANGED <<threads, current, status, fn, cnt, nspawn, sp, wait>>

\* the head of `for i in 0..n`: println!("thread: .. counter: ..") while
\* i < n, println!("THREAD n FINISHED") after the loop
BodyPrint ==
    /\ InBody /\ pc[current] = "loop"
    /\ IF cnt[current] < fn[current]
       THEN /\ cnt' = [cnt EXCEPT ![current] = @ + 1]
            /\ pc' = [pc EXCEPT ![current] = "yield"]
       ELSE /\ cnt' = cnt
            /\ pc' = [pc EXCEPT ![current] = "ret"]
    /\ last' = [op |-> "print", entry |-> current, pos |-> current,
                found |-> FALSE]
    /\ UNCHANGED <<threads, current, status, fn, nspawn, sp, wait>>

\* yield_thread() in the loop of a body
BodyYield ==
    /\ InBody /\ pc[current] = "yield"
    /\ CallTYield("yield_thread", "loop")

\* the body returns into guard
BodyReturn ==
    /\ InBody /\ pc[current] = "ret"
    /\ ReturnCall

\* a body that itself calls spawn through the installed runtime
BodySpawn ==
    /\ InBody /\ pc[current] = "loop" /\ nspawn < MaxSpawns
    /\ \E f \in Bodies : SpawnCall(f)

Next ==
    \/ MainSpawn
    \/ MainYield
    \/ Run
    \/ BodyStart
    \/ BodyPrint
    \/ BodyYield
    \/ BodyReturn
    \/ BodySpawn

Spec == Init /\ [][Next]_vars

(* main as written: spawns, then run; bodies only print, yield and return *)

\* runtime.spawn(..) in main: up to one body per non-base record
ProgSpawn ==
    /\ InBase /\ pc[0] = "main" /\ nspawn < MAX_THREADS - 1
    /\ \E f \in MainBodies : SpawnCall(f)

NextMain ==
    \/ ProgSpawn
    \/ Run
    \/ BodyStart
    \/ BodyPrint
    \/ BodyYield
    \/ BodyReturn

\* the thread holding the CPU always eventually takes its next step
SpecMain == Init /\ [][NextMain]_vars /\ WF_vars(NextMain)

\* the general specification with the running thread always eventually
\* taking its next step
SpecFair == Init /\ [][Next]_vars /\ WF_vars(Next)

TypeOK ==
    /\ DOMAIN threads = 0 .. MAX_THREADS - 1
    /\ \A i \in DOMAIN threads : threads[i].state \in State /\ threads[i].id = i
    /\ current \in 0 .. MAX_THREADS - 1
    /\ status \in {"running", "exited", "panicked", "crashed"}

-----------------------------------------------------------------------------
(* Properties *)

RunningSet == {i \in DOMAIN threads : threads[i].state = "Running"}
ReadySet == {i \in DOMAIN threads : threads[i].state = "Ready"}
YieldOps == {"run", "yield_thread", "t_return"}

\* the step is a call of t_yield that found a Ready record and switched
Switched == last'.op \in YieldOps /\ last'.found

\* cyclic distance from slot c forward to slot i
Dist(c, i) == (i - c + Len_threads(threads)) % Len_threads(threads)

\* C1: in every state between the steps of the threads (after Runtime::new,
\* after every spawn, yield_thread, run turn, println and body return),
\* exactly one record has state Running.
C1_OneRunning == Cardinality(RunningSet) = 1

C1_Witness ==
    /\ last.op = "t_return" /\ last.found
    /\ nspawn >= 2 /\ current # 0

\* C2: in every state between steps, current indexes the Running record.
C2_CurrentRunning ==
    /\ current \in DOMAIN threads
    /\ threads[current].state = "Running"

C2_Witness ==
    /\ last.op = "yield_thread" /\ last.found
    /\ last.entry # 0 /\ last.entry > last.pos /\ current = last.pos

\* C3: whenever t_yield switches, the record it promotes to Running is the
\* record that was Ready at the smallest cyclic distance >= 1 from the
\* current held at entry.
C3_RoundRobin ==
    [][Switched =>
        LET p == last'.pos
            cand == {i \in ReadySet : Dist(current, i) >= 1}
        IN  /\ p \in cand
            /\ \A j \in cand : Dist(current, p) <= Dist(current, j)
            /\ threads'[p].state = "Running"
            /\ current' = p]_vars

\* slot 0 was Running, slots 1 and 2 Ready, and the switch landed on slot 1
C3_Witness ==
    /\ last.op \in YieldOps /\ last.found
    /\ last.entry = 0 /\ last.pos = 1 /\ current = 1
    /\ threads[2].state = "Ready"

\* C4: in every call of t_yield that switches (from run, yield_thread or
\* t_return) the slot selected differs from current at entry.
C4_NeverSelf == [][Switched => last'.pos # current /\ current' # current]_vars

C4_Witness ==
    /\ last.op = "t_return" /\ last.found
    /\ last.pos # last.entry /\ threads[last.entry].state = "Available"

\* C5: when t_yield is called (by run or yield_thread) and no record other
\* than the current one is Ready, it finds nothing and changes neither
\* current nor any record (state, context, stack).
C5_NoWorkNoChange ==
    [][(/\ last'.op \in {"run", "yield_thread"}
        /\ \A i \in DOMAIN threads : i # current => threads[i].state # "Ready")
       => (~last'.found /\ threads' = threads /\ current' = current)]_vars

C5_Witness ==
    /\ last.op = "yield_thread" /\ ~last.found
    /\ status = "running" /\ nspawn >= 1
    /\ ReadySet = {}

\* C6: spawn called when no record is Available panics ("no available
\* thread.") and has changed no record (state, stack, context), not current
\* and not the number of records.
C6_SpawnExhausted ==
    [][(/\ nspawn' # nspawn
        /\ \A i \in DOMAIN threads : threads[i].state # "Available")
       => (/\ status' = "panicked"
           /\ ~last'.found
           /\ threads' = threads
           /\ current' = current)]_vars

\* the fourth outstanding spawn: every non-base record Ready or Running
C6_Witness ==
    /\ status = "panicked" /\ last.op = "spawn"
    /\ Cardinality(ReadySet \cup RunningSet) = MAX_THREADS

\* the change of record i's state in a step, if any, is one of the four
LegalTransition(i) ==
    LET a == threads[i].state
        b == threads'[i].state
    IN  a # b =>
        \/ /\ a = "Available" /\ b = "Ready"
           /\ last'.op = "spawn" /\ last'.pos = i /\ nspawn' = nspawn + 1
        \/ /\ a = "Ready" /\ b = "Running"
           /\ Switched /\ last'.pos = i
        \/ /\ a = "Running" /\ b = "Ready"
           /\ last'.op \in {"run", "yield_thread"} /\ last'.found
           /\ i = current
        \/ /\ a = "Running" /\ b = "Available"
           /\ last'.op = "t_return" /\ i = current /\ i # 0

\* C7: slot 0 starts Running and the others Available, and every change of
\* a record's state is Available -> Ready by spawn, Ready -> Running by being
\* selected in t_yield, Running -> Ready by the running thread's own t_yield
\* that found a target, or Running -> Available by t_return of a non-base
\* thread; spawn only ever takes an Available record.
C7_Transitions ==
    /\ threads[0].state = "Running"
    /\ \A i \in DOMAIN threads : i # 0 => threads[i].state = "Available"
    /\ [][/\ DOMAIN threads' = DOMAIN threads
          /\ \A i \in DOMAIN threads : LegalTransition(i)
          /\ (last'.op = "spawn" /\ last'.found)
                => threads[last'.pos].state = "Available"]_vars

\* a record that went through all four: spawned, run, yielded, resumed, done
C7_Witness ==
    /\ last.op = "t_return" /\ last.entry # 0
    /\ cnt[last.entry] >= 1
    /\ threads[last.entry].state = "Available"

\* every body spawned so far has run its whole loop and returned
AllCompleted ==
    Cardinality({i \in DOMAIN threads :
                    /\ i # 0 /\ pc[i] = "dead" /\ cnt[i] = fn[i]
                    /\ threads[i].state = "Available"}) = nspawn

\* C8: main spawns up to three bodies that each yield finitely often and
\* return, then calls run; if the running thread always takes its next step,
\* every body runs to completion and the process reaches exit(0), and run
\* never returns to main.
C8_Terminates ==
    /\ <>(status = "exited" /\ pc[0] = "run" /\ AllCompleted)
    /\ [][pc[0] = "run" => pc'[0] = "run"]_vars

C8_Witness ==
    /\ status = "exited" /\ nspawn = MAX_THREADS - 1 /\ AllCompleted
    /\ \E i \in DOMAIN threads : fn[i] = NB /\ cnt[i] = NB

\* main as written: A (NA yields) spawned first, B (NB yields) second, run
MainScenario ==
    /\ pc[0] = "run" /\ nspawn = 2
    /\ threads[1].stack[BodyOff(DEFAULT_STACK_SIZE)] = FnWord(NA)
    /\ threads[2].stack[BodyOff(DEFAULT_STACK_SIZE)] = FnWord(NB)

\* C9: in main's scenario the counter lines alternate A, B, A, B, .. while A
\* is unfinished (A's k-th precedes B's k-th, which precedes A's (k+1)-th),
\* the base thread's turn coming after B's in every round; once A has
\* finished its slot is Available and only B goes on; the process exits only
\* with both slots Available and both loops complete.
C9_Alternation ==
    MainScenario =>
        /\ threads[1].state # "Available"
              => /\ cnt[2] <= cnt[1] /\ cnt[1] <= cnt[2] + 1
                 /\ current = 0 => cnt[1] = cnt[2]
        /\ pc[1] = "dead"
              => /\ threads[1].state = "Available"
                 /\ cnt[1] = NA /\ cnt[2] >= NA
        /\ status = "exited"
              => /\ threads[1].state = "Available"
                 /\ threads[2].state = "Available"
                 /\ cnt[1] = NA /\ cnt[2] = NB

C9_Witness ==
    /\ MainScenario /\ status = "exited"
    /\ cnt[1] = NA /\ cnt[2] = NB
    /\ pc[1] = "dead" /\ pc[2] = "dead"

\* C10: the process has exited only from the base thread, in run, with no
\* record Ready: every non-base slot is Available and no body is unfinished.
C10_ExitOnlyWhenDone ==
    status = "exited" =>
        /\ current = 0 /\ last.op = "run" /\ ~last.found
        /\ ReadySet = {}
        /\ \A i \in DOMAIN threads : i # 0 =>
              /\ threads[i].state = "Available"
              /\ pc[i] \in {"idle", "dead"}

C10_Witness ==
    /\ status = "exited"
    /\ Cardinality({i \in DOMAIN threads : pc[i] = "dead"}) = MAX_THREADS - 1

\* C11: when the body of a non-base thread returns, t_return marks its slot
\* Available and its t_yield finds a target and switches away; the context
\* saved there is never loaded again (neither t_return nor guard returns, so
\* the process never faults), and when the slot is next selected it starts
\* the body a new spawn primed, from its first line.
C11_FinishedNeverResumes ==
    [][/\ last'.op = "t_return" =>
            /\ last'.found /\ last'.pos # current /\ current' = last'.pos
            /\ threads'[current].state = "Available"
            /\ threads'[current].ctx.rsp.site = "t_return"
            /\ pc'[current] = "dead"
       /\ Switched =>
            /\ threads[last'.pos].ctx.rsp.site # "t_return"
            /\ pc[last'.pos] = "dead" =>
                  /\ threads[last'.pos].ctx.rsp.site = "primed"
                  /\ pc'[last'.pos] = "start" /\ cnt'[last'.pos] = 0
       /\ status' # "crashed"]_vars

\* slot 1, the only slot ever used, is running the second body spawned on it
C11_Witness ==
    /\ nspawn = 2 /\ status = "running"
    /\ \A i \in {2, 3} : threads[i].state = "Available" /\ pc[i] = "idle"
    /\ current = 1 /\ pc[1] = "loop" /\ cnt[1] = 0

\* a record as spawn leaves it when it takes it fresh from Runtime::new
FreshlyPrimed(r) ==
    /\ r.state = "Ready"
    /\ r.ctx = [rsp |-> [stk |-> r.id,
                         off |-> DEFAULT_STACK_SIZE - 32,
                         site |-> "primed"]]
    /\ r.stack[DEFAULT_STACK_SIZE - 24] = GuardWord
    /\ r.stack[DEFAULT_STACK_SIZE - 32].tag = "fn"
    /\ r.stack[DEFAULT_STACK_SIZE - 16] = ZeroWord
    /\ r.stack[DEFAULT_STACK_SIZE - 8] = ZeroWord

\* C12: a slot whose body has returned through guard and t_return is taken
\* by a later spawn like a fresh one (it becomes Ready, primed exactly as a
\* record never used), and when t_yield then selects it, it becomes Running
\* and starts the new body from its first line.
C12_Reuse ==
    [][/\ (last'.op = "spawn" /\ last'.found /\ pc[last'.pos] = "dead") =>
            /\ threads[last'.pos].state = "Available"
            /\ FreshlyPrimed(threads'[last'.pos])
       /\ (Switched /\ pc[last'.pos] = "dead") =>
            /\ threads'[last'.pos].state = "Running"
            /\ current' = last'.pos
            /\ pc'[last'.pos] = "start" /\ cnt'[last'.pos] = 0
            /\ FnWord(fn'[last'.pos])
                  = threads[last'.pos].stack[DEFAULT_STACK_SIZE - 32]]_vars

\* slot 1, spawned a second time after its first body returned, was selected
C12_Witness ==
    /\ nspawn = 2 /\ status = "running"
    /\ \A i \in {2, 3} : threads[i].state = "Available" /\ pc[i] = "idle"
    /\ last.found /\ last.pos = 1 /\ current = 1
    /\ threads[1].state = "Running" /\ pc[1] = "start"

\* C13: slot 0 is never Available (it is Running or Ready); t_return with
\* current = 0 changes nothing; spawn never picks slot 0 and never writes
\* the base thread's stack or context.
C13_BaseNeverAvailable ==
    /\ threads[0].state \in {"Running", "Ready"}
    /\ TReturn(threads, 0).threads = threads
    /\ TReturn(threads, 0).current = 0
    /\ FindAvailable(threads) # 0
    /\ last.op = "spawn" => last.pos # 0
    /\ threads[0].stack = ZeroStack
    /\ threads[0].ctx.rsp.site # "primed"

\* a body called spawn while the base thread was Ready
C13_Witness ==
    /\ last.op = "spawn" /\ last.found /\ last.entry # 0
    /\ threads[0].state = "Ready"
    /\ threads[0].ctx.rsp.site \in {"run", "yield_thread"}

\* C14: a successful spawn changes exactly one record: the lowest-indexed
\* Available record becomes Ready with its saved rsp and its two top-of-stack
\* words primed; current, the number of records, every id and every other
\* record are unchanged.
C14_SpawnFrame ==
    [][(last'.op = "spawn" /\ last'.found) =>
        LET p == last'.pos
            av == {i \in DOMAIN threads : threads[i].state = "Available"}
            size == DEFAULT_STACK_SIZE
        IN  /\ p \in av /\ \A j \in av : p <= j
            /\ DOMAIN threads' = DOMAIN threads
            /\ current' = current
            /\ \A i \in DOMAIN threads : i # p => threads'[i] = threads[i]
            /\ threads'[p].id = threads[p].id
            /\ threads'[p].state = "Ready"
            /\ threads'[p].ctx.rsp
                  = [stk |-> p, off |-> size - 32, site |-> "primed"]
            /\ threads'[p].stack[size - 24] = GuardWord
            /\ threads'[p].stack[size - 32].tag = "fn"
            /\ \A o \in DOMAIN threads[p].stack :
                  o \notin {size - 24, size - 32}
                     => threads'[p].stack[o] = threads[p].stack[o]]_vars

\* slot 2 was taken while slot 3 was Available too and slot 1 was in use
C14_Witness ==
    /\ last.op = "spawn" /\ last.found /\ last.pos = 2
    /\ threads[1].state # "Available"
    /\ threads[2].state = "Ready"
    /\ threads[3].state = "Available"

\* C15: a t_yield entered with current = c that finds the Ready record p
\* leaves state[p] = Running and current = p; c is Ready if it was Running at
\* entry (run, yield_thread) and Available if t_return had marked it; the
\* states of all other records are unchanged.
C15_YieldFrame ==
    [][Switched =>
        LET c == current
            p == last'.pos
        IN  /\ threads[p].state = "Ready"
            /\ threads'[p].state = "Running"
            /\ current' = p
            /\ last'.op \in {"run", "yield_thread"} =>
                  threads[c].state = "Running" /\ threads'[c].state = "Ready"
            /\ last'.op = "t_return" => threads'[c].state = "Available"
            /\ \A i \in DOMAIN threads :
                  i \notin {c, p} => threads'[i].state = threads[i].state]_vars

\* slot 1 yielded to slot 2 while slots 0 and 3 stayed Ready
C15_Witness ==
    /\ last.op = "yield_thread" /\ last.found
    /\ last.entry = 1 /\ last.pos = 2 /\ current = 2
    /\ threads[0].state = "Ready" /\ threads[1].state = "Ready"
    /\ threads[3].state = "Ready"

\* C16: no step writes the saved context (or the primed words) of a record
\* that is Ready, up to and including the step that makes it Running; a
\* context is written only by the switch of the thread that was current at
\* t_yield's entry and by spawn on an Available record; so a thread that
\* yielded is resumed with the context it saved, right after its call of
\* t_yield: same position, same locals, process still running.
C16_ResumeWhereSuspended ==
    [][/\ \A i \in DOMAIN threads :
            /\ threads[i].state = "Ready" =>
                  /\ threads'[i].ctx = threads[i].ctx
                  /\ threads'[i].stack = threads[i].stack
            /\ threads'[i].ctx # threads[i].ctx =>
                  \/ Switched /\ i = current
                  \/ /\ last'.op = "spawn" /\ last'.pos = i
                     /\ threads[i].state = "Available"
       /\ (Switched /\ threads[last'.pos].ctx.rsp.site # "primed") =>
            /\ threads[last'.pos].ctx.rsp.site \in {"run", "yield_thread"}
            /\ pc'[last'.pos] = pc[last'.pos]
            /\ pc[last'.pos] \in {"main", "run", "loop"}
            /\ cnt'[last'.pos] = cnt[last'.pos]
            /\ fn'[last'.pos] = fn[last'.pos]
            /\ sp'[last'.pos] = sp[last'.pos]
            /\ status' = "running"]_vars

\* a body that yielded was switched back in and stands after its yield
C16_Witness ==
    /\ last.found /\ last.pos = current /\ current # 0
    /\ threads[current].ctx.rsp.site = "yield_thread"
    /\ pc[current] = "loop" /\ cnt[current] >= 1
    /\ status = "running"

\* C17: the first switch into a freshly spawned record pops the body address
\* from the primed stack and starts that body at its first line; when the
\* body returns, the next word up is popped and is the guard address, so
\* guard calls t_return, once, with current = that record's index.
C17_StartFinish ==
    [][/\ (Switched /\ threads[last'.pos].ctx.rsp.site = "primed") =>
            LET p == last'.pos
                r == threads[p].ctx.rsp
            IN  /\ r.stk = p
                /\ threads[p].stack[r.off].tag = "fn"
                /\ pc'[p] = "start" /\ cnt'[p] = 0
                /\ fn'[p] = threads[p].stack[r.off].n
                /\ sp'[p] = r.off + 8
       /\ (status = "running" /\ pc[current] = "ret") =>
            /\ threads[current].stack[sp[current]] = GuardWord
            /\ last'.op = "t_return" /\ last'.entry = current
            /\ threads'[current].state = "Available"
            /\ pc'[current] = "dead"
            /\ sp'[current] = sp[current] + 8
       /\ last'.op = "t_return" => pc[current] = "ret" /\ current # 0
       /\ \A i \in DOMAIN threads :
            pc[i] = "dead" => pc'[i] \in {"dead", "start"}]_vars

\* a body started from a primed stack has returned through guard
C17_Witness ==
    /\ last.op = "t_return" /\ last.found /\ last.entry # 0
    /\ pc[last.entry] = "dead"
    /\ sp[last.entry] = DEFAULT_STACK_SIZE - 16
    /\ threads[last.entry].stack[DEFAULT_STACK_SIZE - 24] = GuardWord

\* C18: with the stack size of 2 MiB, the guard address lies in the word at
\* byte offset size-24 and the body address in the word at size-32, both
\* inside the buffer, guard above body; a primed rsp is that record's stack
\* at size-32, a multiple of 16; rsp is size-24 on entry to the body and
\* size-16 on entry to guard, still inside the buffer.
C18_PrimingArithmetic ==
    LET size == DEFAULT_STACK_SIZE
    IN  /\ size = 2097152
        /\ \A i \in DOMAIN threads :
            /\ DOMAIN threads[i].stack \subseteq 0 .. size - 8
            /\ \A o \in DOMAIN threads[i].stack :
                /\ threads[i].stack[o].tag = "guard" => o = size - 24
                /\ threads[i].stack[o].tag = "fn" => o = size - 32
            /\ threads[i].ctx.rsp.site = "primed" =>
                /\ threads[i].ctx.rsp.stk = i
                /\ threads[i].ctx.rsp.off = size - 32
                /\ threads[i].ctx.rsp.off % 16 = 0
                /\ threads[i].stack[size - 32].tag = "fn"
                /\ threads[i].stack[size - 24] = GuardWord
            /\ pc[i] \in {"start", "loop", "yield", "ret"} =>
                /\ sp[i] = size - 24
                /\ sp[i] + 8 <= size
            /\ pc[i] = "dead" =>
                /\ sp[i] = size - 16
                /\ sp[i] + 8 <= size

\* one record primed and waiting, one in its body, one finished
C18_Witness ==
    /\ \E i \in DOMAIN threads :
          threads[i].state = "Ready" /\ threads[i].ctx.rsp.site = "primed"
    /\ \E i \in DOMAIN threads : pc[i] = "loop" /\ current = i
    /\ \E i \in DOMAIN threads : pc[i] = "dead"

\* C19: whenever a non-base thread is current, slot 0 is Ready; so every
\* t_yield issued by a non-base thread (yield_thread or t_return) finds a
\* target, some record is always Running, and the process never faults
\* (guard never returns).
C19_BaseReadyWhileBodyRuns ==
    /\ current # 0 => threads[0].state = "Ready"
    /\ (last.op \in YieldOps /\ last.entry # 0) => last.found
    /\ RunningSet # {}
    /\ status # "crashed"

\* the last body finished with slot 0 as the only Ready record
C19_Witness ==
    /\ last.op = "t_return" /\ last.entry # 0 /\ last.pos = 0
    /\ ReadySet = {} /\ current = 0 /\ status = "running"

\* C20: a Ready record is passed over by at most MAX_THREADS - 2 switches, so
\* it is Running after at most MAX_THREADS - 1 = 3 switches whatever is
\* spawned, yields or finishes meanwhile; a record leaves Ready only by
\* becoming Running, and if the running thread always takes its next step no
\* record stays Ready for ever (unless a spawn panics first): every Ready
\* record eventually runs.
C20_BoundedWaiting ==
    /\ [](\A i \in DOMAIN threads : wait[i] <= MAX_THREADS - 2)
    /\ [][\A i \in DOMAIN threads :
            (threads[i].state = "Ready" /\ threads'[i].state # "Ready")
               => threads'[i].state = "Running"]_vars
    /\ \A i \in 0 .. MAX_THREADS - 1 :
          []<>(threads[i].state # "Ready" \/ status = "panicked")

\* a record that has been passed over twice and is still Ready
C20_Witness ==
    \E i \in DOMAIN threads :
        threads[i].state = "Ready" /\ wait[i] = MAX_THREADS - 2

=============================================================================
